---- MODULE Spec2Model ----
(***************************************************************************)
(* CircularQueue<T, N> of copper/src/common.rs: a fixed-capacity ring      *)
(* buffer over a GenericArray<T, N>, with T = i32.                         *)
(*                                                                         *)
(* A queue value is the record [data, length, insertion_index]; data is    *)
(* the backing array (slot k of the Rust array is data[k + 1]) and the     *)
(* capacity N is its length.  Every method is an operator on that record,  *)
(* returning the new record and the method's return value.                 *)
(***************************************************************************)
EXTENDS Integers, Sequences, FiniteSets, TLC

\* ---- bounds ------------------------------------------------------------
MaxCap == 3
MaxVal == 2
MaxPushes == 7
MaxCapEq == 2
MaxBytes == 3
MaxAllocSize == 2
MaxResets == 1

\* ---- values ------------------------------------------------------------
\* i32::default(), the placeholder GenericArray::default() fills the slots with
Default == 0

Values == 0..MaxVal

\* Option<T>
None == <<>>

Some(v) == <<v>>

\* the outcome of a call that may panic
Panic == [panic |-> TRUE, val |-> <<>>]

Ok(s) == [panic |-> FALSE, val |-> s]

\* ---- slices ------------------------------------------------------------
\* Iterator::rev over a slice iterator
Rev(s) == [i \in 1..Len(s) |-> s[Len(s) + 1 - i]]

\* the slot numbers 0..N-1 of a backing array of N slots
slot_numbers(q) == [i \in 1..Len(q.data) |-> i - 1]

\* the values held by a sequence of slots
values_at(q, slots) == [i \in 1..Len(slots) |-> q.data[slots[i] + 1]]

\* ---- CircularQueue -----------------------------------------------------
new(N) ==
    [data |-> [i \in 1..N |-> Default], length |-> 0, insertion_index |-> 0]

len(q) == q.length

is_empty(q) == q.length = 0

capacity(q) == Len(q.data)

\* is_full of a ring that keeps one slot spare
is_full_spare_slot(q) == capacity(q) <= len(q) + 1

is_full(q) == capacity(q) = len(q)

\* clear that resets the length and leaves the index where it was
clear_length_only(q) == [q EXCEPT !.length = 0]

clear(q) == [q EXCEPT !.insertion_index = 0, !.length = 0]

\* push that, once full, evicts the newest element instead of the oldest
push_evicts_newest(q, x) ==
    IF capacity(q) = 0
    THEN [q |-> q, ret |-> None]
    ELSE LET last == (q.insertion_index + capacity(q) - 1) % capacity(q)
             old == IF ~is_full(q) THEN None ELSE Some(q.data[last + 1])
             stored == IF ~is_full(q)
                       THEN [q EXCEPT !.data[q.insertion_index + 1] = x,
                                      !.length = @ + 1]
                       ELSE [q EXCEPT !.data[q.insertion_index + 1] = x]
         IN [q |-> [stored EXCEPT
                      !.insertion_index = (@ + 1) % capacity(q)],
             ret |-> old]

\* push that advances the index without reducing it modulo the capacity
push_no_modulo(q, x) ==
    IF capacity(q) = 0
    THEN [q |-> q, ret |-> None]
    ELSE LET old == IF ~is_full(q)
                    THEN None
                    ELSE Some(q.data[q.insertion_index + 1])
             stored == IF ~is_full(q)
                       THEN [q EXCEPT !.data[q.insertion_index + 1] = x,
                                      !.length = @ + 1]
                       ELSE [q EXCEPT !.data[q.insertion_index + 1] = x]
         IN [q |-> [stored EXCEPT !.insertion_index = @ + 1],
             ret |-> old]

\* push that, finding the queue full, grows the storage instead of
\* overwriting the oldest slot
push_grows(q, x) ==
    IF capacity(q) = 0
    THEN [q |-> q, ret |-> None]
    ELSE IF ~is_full(q)
    THEN [q |-> [q EXCEPT !.data[q.insertion_index + 1] = x,
                          !.length = @ + 1,
                          !.insertion_index = (@ + 1) % capacity(q)],
          ret |-> None]
    ELSE [q |-> [q EXCEPT !.data = Append(@, x), !.length = @ + 1],
          ret |-> None]

\* push that hands back the new value instead of the one it overwrote
push_returns_new(q, x) ==
    IF capacity(q) = 0
    THEN [q |-> q, ret |-> None]
    ELSE LET old == IF ~is_full(q) THEN None ELSE Some(x)
             stored == IF ~is_full(q)
                       THEN [q EXCEPT !.data[q.insertion_index + 1] = x,
                                      !.length = @ + 1]
                       ELSE [q EXCEPT !.data[q.insertion_index + 1] = x]
         IN [q |-> [stored EXCEPT
                      !.insertion_index = (@ + 1) % capacity(q)],
             ret |-> old]

\* push that, having no slot to store into, hands the value straight back
push_zero_cap_returns_value(q, x) ==
    IF capacity(q) = 0
    THEN [q |-> q, ret |-> Some(x)]
    ELSE LET old == IF ~is_full(q)
                    THEN None
                    ELSE Some(q.data[q.insertion_index + 1])
             stored == IF ~is_full(q)
                       THEN [q EXCEPT !.data[q.insertion_index + 1] = x,
                                      !.length = @ + 1]
                       ELSE [q EXCEPT !.data[q.insertion_index + 1] = x]
         IN [q |-> [stored EXCEPT
                      !.insertion_index = (@ + 1) % capacity(q)],
             ret |-> old]

push(q, x) ==
    IF capacity(q) = 0
    THEN [q |-> q, ret |-> None]
    ELSE LET old == IF ~is_full(q)
                    THEN None
                    ELSE Some(q.data[q.insertion_index + 1])
             stored == IF ~is_full(q)
                       THEN [q EXCEPT !.data[q.insertion_index + 1] = x,
                                      !.length = @ + 1]
                       ELSE [q EXCEPT !.data[q.insertion_index + 1] = x]
         IN [q |-> [stored EXCEPT
                      !.insertion_index = (@ + 1) % capacity(q)],
             ret |-> old]

\* pop that moves the value out of its slot, leaving the placeholder
pop_takes_value(q) ==
    IF capacity(q) = 0 \/ q.length = 0
    THEN [q |-> q, ret |-> None]
    ELSE LET at == IF q.insertion_index = 0
                   THEN capacity(q) - 1
                   ELSE q.insertion_index - 1
         IN [q |-> [q EXCEPT !.insertion_index = at, !.length = @ - 1,
                             !.data[at + 1] = Default],
             ret |-> Some(q.data[at + 1])]

\* pop that steps the index back without wrapping from 0 to N - 1
pop_no_wrap(q) ==
    IF capacity(q) = 0 \/ q.length = 0
    THEN [q |-> q, ret |-> None]
    ELSE LET at == IF q.insertion_index = 0 THEN 0 ELSE q.insertion_index - 1
         IN [q |-> [q EXCEPT !.insertion_index = at, !.length = @ - 1],
             ret |-> Some(q.data[at + 1])]

pop(q) ==
    IF capacity(q) = 0 \/ q.length = 0
    THEN [q |-> q, ret |-> None]
    ELSE LET at == IF q.insertion_index = 0
                   THEN capacity(q) - 1
                   ELSE q.insertion_index - 1
         IN [q |-> [q EXCEPT !.insertion_index = at, !.length = @ - 1],
             ret |-> Some(q.data[at + 1])]

\* self.data[0..self.length].split_at(self.insertion_index) panics when the
\* range end exceeds the array or the split point exceeds the slice
iter_panics(q) ==
    q.length > capacity(q) \/ q.insertion_index > q.length

\* iter() with the two halves chained the other way round
iter_slots_halves_swapped(q) ==
    LET window == SubSeq(slot_numbers(q), 1, q.length)
        a == SubSeq(window, 1, q.insertion_index)
        b == SubSeq(window, q.insertion_index + 1, Len(window))
    IN Rev(b) \o Rev(a)

\* the slots iter() visits, in order: a.rev() chained with b.rev()
iter_slots(q) ==
    LET window == SubSeq(slot_numbers(q), 1, q.length)
        a == SubSeq(window, 1, q.insertion_index)
        b == SubSeq(window, q.insertion_index + 1, Len(window))
    IN Rev(a) \o Rev(b)

iter(q) ==
    IF iter_panics(q) THEN Panic ELSE Ok(values_at(q, iter_slots(q)))

\* self.data.split_at_mut(self.insertion_index) panics when the split point
\* lies beyond the array
split_panics(q) == q.insertion_index > capacity(q)

\* the slots iter_mut() visits, in order: the whole array split at
\* insertion_index, a reversed then b reversed
iter_mut_slots(q) ==
    LET a == SubSeq(slot_numbers(q), 1, q.insertion_index)
        b == SubSeq(slot_numbers(q), q.insertion_index + 1, capacity(q))
    IN Rev(a) \o Rev(b)

iter_mut(q) ==
    IF split_panics(q) THEN Panic ELSE Ok(values_at(q, iter_mut_slots(q)))

\* asc_iter() that chains the two halves without rotating them
asc_iter_slots_unrotated(q) ==
    LET a == SubSeq(slot_numbers(q), 1, q.insertion_index)
        b == SubSeq(slot_numbers(q), q.insertion_index + 1, capacity(q))
    IN a \o b

\* the slots asc_iter() visits, in order: the whole array split at
\* insertion_index, b then a
asc_iter_slots(q) ==
    LET a == SubSeq(slot_numbers(q), 1, q.insertion_index)
        b == SubSeq(slot_numbers(q), q.insertion_index + 1, capacity(q))
    IN b \o a

asc_iter(q) ==
    IF split_panics(q) THEN Panic ELSE Ok(values_at(q, asc_iter_slots(q)))

asc_iter_mut_slots(q) ==
    LET a == SubSeq(slot_numbers(q), 1, q.insertion_index)
        b == SubSeq(slot_numbers(q), q.insertion_index + 1, capacity(q))
    IN b \o a

asc_iter_mut(q) ==
    IF split_panics(q) THEN Panic ELSE Ok(values_at(q, asc_iter_mut_slots(q)))

\* Iterator::zip followed by all(|(a, b)| a == b): zip stops at the shorter
zip_all_eq(x, y) ==
    \A i \in 1..(IF Len(x) <= Len(y) THEN Len(x) ELSE Len(y)) : x[i] = y[i]

\* PartialEq::eq; both iter() calls are made before the zip is consumed
eq(self, other) ==
    IF len(self) # len(other) THEN Ok(FALSE)
    ELSE IF iter(other).panic \/ iter(self).panic THEN Panic
    ELSE Ok(zip_all_eq(iter(other).val, iter(self).val))

\* the closures handed to iter_mut() in the model: x -> x + k, kept in Values
closure(k, x) == (x + k) % (MaxVal + 1)

\* for x in q.iter_mut() { *x = f(*x) }
for_iter_mut(q, k) ==
    [q EXCEPT !.data = [i \in 1..capacity(q) |->
        IF \E j \in 1..Len(iter_mut_slots(q)) : iter_mut_slots(q)[j] = i - 1
        THEN closure(k, q.data[i])
        ELSE q.data[i]]]

\* ---- the reference bounded queue, newest element first -----------------
ref_push(r, N, x) ==
    IF N = 0 THEN r
    ELSE IF Len(r) = N THEN <<x>> \o SubSeq(r, 1, N - 1)
    ELSE <<x>> \o r

ref_pop(r) == IF r = <<>> THEN r ELSE Tail(r)

\* ---- monitoring: usize arithmetic --------------------------------------
\* the exact difference
Exact(n) == [panic |-> FALSE, wrapped |-> FALSE, val |-> n]

\* x - y on usize.  When y > x the subtraction overflows: a build with
\* overflow checks panics, a build without them wraps, and val is then the
\* result less 2^usize::BITS.
usize_sub(x, y) ==
    IF x >= y
    THEN {Exact(x - y)}
    ELSE {[panic |-> TRUE, wrapped |-> FALSE, val |-> 0],
          [panic |-> FALSE, wrapped |-> TRUE, val |-> x - y]}

\* ---- state -------------------------------------------------------------
VARIABLES
    q,        \* the queue under test
    ref,      \* the reference bounded queue fed the same calls
    op,       \* the last call made on q: "new", "push", "pop", "clear", ...
    arg,      \* the argument of the last call
    ret,      \* the value the last call returned
    hist,     \* the values pushed since construction, oldest first
    twin,     \* a queue constructed when q was last cleared, fed q's calls
    retTwin,  \* the value the last call returned on twin
    q2,        \* a second queue of the same type, driven independently
    ref2,     \* the reference bounded queue of q2
    allocated,          \* GLOBAL.allocated
    deallocated,        \* GLOBAL.deallocated
    outstanding,        \* bytes handed out by System and not yet returned
    resetPc,            \* where a caller of GLOBAL.reset() stands
    resets,             \* the number of reset() calls started
    scope,              \* where the ScopedAllocCounter stands
    bf_allocated,       \* its snapshot of allocated
    bf_deallocated,     \* its snapshot of deallocated
    delta_allocated,    \* _allocated computed in drop
    delta_deallocated,  \* _deallocated computed in drop
    during_allocated,   \* bytes counted into allocated since its snapshot
    during_deallocated  \* bytes counted into deallocated since its snapshot

queueVars == <<q, ref, op, arg, ret, hist, twin, retTwin, q2, ref2>>

monVars ==
    <<allocated, deallocated, outstanding, resetPc, resets, scope,
      bf_allocated, bf_deallocated, delta_allocated, delta_deallocated,
      during_allocated, during_deallocated>>

vars == <<queueVars, monVars>>

\* CountingAllocator::new(), and no ScopedAllocCounter yet
InitMon ==
    /\ allocated = 0
    /\ deallocated = 0
    /\ outstanding = 0
    /\ resetPc = "idle"
    /\ resets = 0
    /\ scope = "none"
    /\ bf_allocated = 0
    /\ bf_deallocated = 0
    /\ delta_allocated = Exact(0)
    /\ delta_deallocated = Exact(0)
    /\ during_allocated = 0
    /\ during_deallocated = 0

Init ==
    /\ \E N \in 0..MaxCap :
          /\ q = new(N)
          /\ twin = new(N)
          /\ q2 = new(N)
    /\ ref = <<>>
    /\ op = "new"
    /\ arg = Default
    /\ ret = None
    /\ hist = <<>>
    /\ retTwin = None
    /\ ref2 = <<>>
    /\ InitMon

DoPush(x) ==
    /\ q' = push(q, x).q
    /\ ret' = push(q, x).ret
    /\ ref' = ref_push(ref, capacity(q), x)
    /\ op' = "push"
    /\ arg' = x
    /\ UNCHANGED monVars

DoPop ==
    /\ q' = pop(q).q
    /\ ret' = pop(q).ret
    /\ ref' = ref_pop(ref)
    /\ op' = "pop"
    /\ arg' = Default
    /\ UNCHANGED monVars

DoClear ==
    /\ q' = clear(q)
    /\ ret' = None
    /\ ref' = <<>>
    /\ op' = "clear"
    /\ arg' = Default
    /\ UNCHANGED monVars

\* ---- one queue under push, pop and clear -------------------------------
Push == \E x \in Values : DoPush(x) /\ UNCHANGED <<hist, twin, retTwin, q2, ref2>>

Pop == DoPop /\ UNCHANGED <<hist, twin, retTwin, q2, ref2>>

Clear == DoClear /\ UNCHANGED <<hist, twin, retTwin, q2, ref2>>

Next == Push \/ Pop \/ Clear

Spec == Init /\ [][Next]_vars

\* ---- a queue that receives only pushes, the pushed values recorded -----
PushRecorded ==
    /\ Len(hist) < MaxPushes
    /\ \E x \in Values : DoPush(x) /\ hist' = Append(hist, x)
    /\ UNCHANGED <<twin, retTwin, q2, ref2>>

NextPush == PushRecorded

SpecPush == Init /\ [][NextPush]_vars

\* ---- push, pop, clear and a pass of iter_mut() -------------------------
IterMut ==
    /\ ~split_panics(q)
    /\ \E k \in 1..MaxVal :
          /\ q' = for_iter_mut(q, k)
          /\ ref' = [i \in 1..Len(ref) |-> closure(k, ref[i])]
          /\ arg' = k
    /\ op' = "iter_mut"
    /\ ret' = None
    /\ UNCHANGED <<hist, twin, retTwin, q2, ref2>>
    /\ UNCHANGED monVars

NextMut == Push \/ Pop \/ Clear \/ IterMut

SpecMut == Init /\ [][NextMut]_vars

\* ---- a cleared queue next to a freshly constructed one -----------------
PushBoth ==
    /\ \E x \in Values :
          /\ DoPush(x)
          /\ twin' = push(twin, x).q
          /\ retTwin' = push(twin, x).ret
    /\ UNCHANGED <<hist, q2, ref2>>

PopBoth ==
    /\ DoPop
    /\ twin' = pop(twin).q
    /\ retTwin' = pop(twin).ret
    /\ UNCHANGED <<hist, q2, ref2>>

ClearAndConstruct ==
    /\ DoClear
    /\ twin' = new(capacity(q))
    /\ retTwin' = None
    /\ UNCHANGED <<hist, q2, ref2>>

NextClear == PushBoth \/ PopBoth \/ ClearAndConstruct

SpecClear == Init /\ [][NextClear]_vars

\* ---- two queues driven independently -----------------------------------
PushB ==
    /\ \E x \in Values :
          /\ q2' = push(q2, x).q
          /\ ref2' = ref_push(ref2, capacity(q2), x)
    /\ UNCHANGED <<q, ref, op, arg, ret, hist, twin, retTwin>>
    /\ UNCHANGED monVars

PopB ==
    /\ q2' = pop(q2).q
    /\ ref2' = ref_pop(ref2)
    /\ UNCHANGED <<q, ref, op, arg, ret, hist, twin, retTwin>>
    /\ UNCHANGED monVars

ClearB ==
    /\ q2' = clear(q2)
    /\ ref2' = <<>>
    /\ UNCHANGED <<q, ref, op, arg, ret, hist, twin, retTwin>>
    /\ UNCHANGED monVars

InitEq == Init /\ capacity(q) <= MaxCapEq

NextEq == Push \/ Pop \/ Clear \/ PushB \/ PopB \/ ClearB

SpecEq == InitEq /\ [][NextEq]_vars

\* ---- the counting allocator and one scoped counter ---------------------
\* bytes counted into a counter while the scope has its snapshot of it and
\* has not yet read it back
CountsAllocated == scope \in {"new_allocated", "open"}

CountsDeallocated == scope \in {"open", "drop_allocated"}

\* GlobalAlloc::alloc: System.alloc may return null, and then nothing is
\* counted
Alloc ==
    /\ \E size \in 1..MaxAllocSize, null \in BOOLEAN :
          IF null
          THEN UNCHANGED <<allocated, outstanding, during_allocated>>
          ELSE /\ allocated + size <= MaxBytes
               /\ outstanding + size <= MaxBytes
               /\ allocated' = allocated + size
               /\ outstanding' = outstanding + size
               /\ during_allocated' =
                     IF CountsAllocated
                     THEN during_allocated + size
                     ELSE during_allocated
    /\ UNCHANGED <<deallocated, resetPc, resets, scope, bf_allocated,
                   bf_deallocated, delta_allocated, delta_deallocated,
                   during_deallocated>>
    /\ UNCHANGED queueVars

\* GlobalAlloc::dealloc
Dealloc ==
    /\ \E size \in 1..MaxAllocSize :
          /\ size <= outstanding
          /\ deallocated + size <= MaxBytes
          /\ outstanding' = outstanding - size
          /\ deallocated' = deallocated + size
          /\ during_deallocated' =
                IF CountsDeallocated
                THEN during_deallocated + size
                ELSE during_deallocated
    /\ UNCHANGED <<allocated, resetPc, resets, scope, bf_allocated,
                   bf_deallocated, delta_allocated, delta_deallocated,
                   during_allocated>>
    /\ UNCHANGED queueVars

\* CountingAllocator::reset, first store
ResetAllocated ==
    /\ resetPc = "idle"
    /\ resets < MaxResets
    /\ allocated' = 0
    /\ resetPc' = "stored_allocated"
    /\ resets' = resets + 1
    /\ UNCHANGED <<deallocated, outstanding, scope, bf_allocated,
                   bf_deallocated, delta_allocated, delta_deallocated,
                   during_allocated, during_deallocated>>
    /\ UNCHANGED queueVars

\* CountingAllocator::reset, second store
ResetDeallocated ==
    /\ resetPc = "stored_allocated"
    /\ deallocated' = 0
    /\ resetPc' = "idle"
    /\ UNCHANGED <<allocated, outstanding, resets, scope, bf_allocated,
                   bf_deallocated, delta_allocated, delta_deallocated,
                   during_allocated, during_deallocated>>
    /\ UNCHANGED queueVars

\* ScopedAllocCounter::new, bf_allocated: GLOBAL.get_allocated()
ScopeNewAllocated ==
    /\ scope = "none"
    /\ bf_allocated' = allocated
    /\ scope' = "new_allocated"
    /\ UNCHANGED <<allocated, deallocated, outstanding, resetPc, resets,
                   bf_deallocated, delta_allocated, delta_deallocated,
                   during_allocated, during_deallocated>>
    /\ UNCHANGED queueVars

\* ScopedAllocCounter::new, bf_deallocated: GLOBAL.get_deallocated()
ScopeNewDeallocated ==
    /\ scope = "new_allocated"
    /\ bf_deallocated' = deallocated
    /\ scope' = "open"
    /\ UNCHANGED <<allocated, deallocated, outstanding, resetPc, resets,
                   bf_allocated, delta_allocated, delta_deallocated,
                   during_allocated, during_deallocated>>
    /\ UNCHANGED queueVars

\* Drop::drop, let _allocated = GLOBAL.get_allocated() - self.bf_allocated
DropAllocated ==
    /\ scope = "open"
    /\ \E d \in usize_sub(allocated, bf_allocated) :
          /\ delta_allocated' = d
          /\ scope' = IF d.panic THEN "panicked" ELSE "drop_allocated"
    /\ UNCHANGED <<allocated, deallocated, outstanding, resetPc, resets,
                   bf_allocated, bf_deallocated, delta_deallocated,
                   during_allocated, during_deallocated>>
    /\ UNCHANGED queueVars

\* Drop::drop, let _deallocated = GLOBAL.get_deallocated() - self.bf_deallocated
DropDeallocated ==
    /\ scope = "drop_allocated"
    /\ \E d \in usize_sub(deallocated, bf_deallocated) :
          /\ delta_deallocated' = d
          /\ scope' = IF d.panic THEN "panicked" ELSE "dropped"
    /\ UNCHANGED <<allocated, deallocated, outstanding, resetPc, resets,
                   bf_allocated, bf_deallocated, delta_allocated,
                   during_allocated, during_deallocated>>
    /\ UNCHANGED queueVars

InitAlloc == Init /\ capacity(q) = 0

NextAlloc ==
    \/ Alloc
    \/ Dealloc
    \/ ResetAllocated
    \/ ResetDeallocated
    \/ ScopeNewAllocated
    \/ ScopeNewDeallocated
    \/ DropAllocated
    \/ DropDeallocated

SpecAlloc == InitAlloc /\ [][NextAlloc]_vars

\* ---- properties ---------------------------------------------------------
Min(m, n) == IF m <= n THEN m ELSE n

\* the last k recorded pushes, most recent first
LastPushed(k) == Rev(SubSeq(hist, Len(hist) - k + 1, Len(hist)))

\* C1: a fresh queue of capacity C >= 1 that received only pushes, n of
\* them, yields from iter() exactly the last min(n, C) pushed values, most
\* recently pushed first.
C1_IterYieldsLastPushed ==
    capacity(q) >= 1 =>
        iter(q) = Ok(LastPushed(Min(Len(hist), capacity(q))))

\* more pushes than slots, on a queue of at least two slots, with the
\* newest and the oldest live value different
C1_Witness ==
    /\ capacity(q) >= 2
    /\ Len(hist) > capacity(q)
    /\ iter(q) = Ok(LastPushed(capacity(q)))
    /\ iter(q).val[1] # iter(q).val[capacity(q)]

\* C2: after any sequence of push, pop and clear on a queue of capacity
\* C >= 1, iter() yields exactly the contents of the reference bounded
\* queue, newest first.
C2_IterYieldsLive == capacity(q) >= 1 => iter(q) = Ok(ref)

\* C3: on a fresh queue of capacity C >= 1 that receives only pushes, the
\* k-th push returns None when k <= C and otherwise the value given to the
\* (k - C)-th push.
C3_PushReturnsEvicted ==
    (op = "push" /\ capacity(q) >= 1) =>
        ret = IF Len(hist) <= capacity(q)
              THEN None
              ELSE Some(hist[Len(hist) - capacity(q)])

\* a push past the capacity that returned a value other than its argument
C3_Witness ==
    /\ op = "push"
    /\ capacity(q) >= 2
    /\ Len(hist) > capacity(q)
    /\ ret = Some(hist[Len(hist) - capacity(q)])
    /\ ret # Some(arg)

\* C4: in every reachable state pop() returns None and changes nothing
\* when the queue is empty (or has capacity 0); otherwise it returns the
\* newest element of the reference bounded queue and decrements len() by
\* exactly 1.
C4_PopReturnsNewest ==
    [][op' = "pop" =>
         IF q.length = 0 \/ capacity(q) = 0
         THEN ret' = None /\ q' = q
         ELSE ret' = Some(Head(ref)) /\ len(q') = len(q) - 1]_vars

\* a pop that succeeded by wrapping the index back from slot 0 to the last
\* slot, leaving live elements behind
C4_Witness ==
    /\ op = "pop"
    /\ ret # None
    /\ capacity(q) >= 2
    /\ q.insertion_index = capacity(q) - 1
    /\ q.length >= 1
    /\ Len(ref) = q.length

\* C5: in every reachable state iter() completes and yields len() elements.
C5_IterCountIsLen ==
    /\ iter(q).panic = FALSE
    /\ Len(iter(q).val) = len(q)

\* C6: two queues, each reached by any sequence of push, pop and clear,
\* compare equal exactly when len() is the same and iter() yields the same
\* sequence; the comparison returns, and two queues holding the same live
\* values are equal whatever their insertion_index and stale slots.
C6_EqIffSameContents ==
    /\ eq(q, q2).panic = FALSE
    /\ eq(q, q2).val <=> (len(q) = len(q2) /\ iter(q) = iter(q2))
    /\ ref = ref2 => eq(q, q2) = Ok(TRUE)

\* C7: right after clear(), whatever came before, len() is 0, is_empty()
\* holds, iter() yields nothing and the queue equals a new one.
C7_ClearedIsEmpty ==
    op = "clear" =>
        /\ len(q) = 0
        /\ is_empty(q)
        /\ iter(q) = Ok(<<>>)
        /\ eq(q, new(capacity(q))) = Ok(TRUE)
        /\ eq(new(capacity(q)), q) = Ok(TRUE)

\* a clear of a queue of at least two slots whose every slot had been
\* written with a value other than the placeholder
C7_Witness ==
    /\ op = "clear"
    /\ capacity(q) >= 2
    /\ \A i \in 1..capacity(q) : q.data[i] # Default
    /\ eq(q, new(capacity(q))) = Ok(TRUE)

\* C8: a queue that was cleared and a queue constructed at that moment,
\* given the same calls from then on, agree on every public observation.
C8_ClearedActsFresh ==
    /\ len(q) = len(twin)
    /\ is_empty(q) = is_empty(twin)
    /\ is_full(q) = is_full(twin)
    /\ ret = retTwin
    /\ iter(q) = iter(twin)
    /\ iter_mut(q) = iter_mut(twin)
    /\ asc_iter(q) = asc_iter(twin)
    /\ asc_iter_mut(q) = asc_iter_mut(twin)

\* C9: a queue of capacity 0, after any push, pop and clear calls, has
\* len() 0 and capacity() 0, is empty, returned None from the last push or
\* pop, and yields nothing from iter() and asc_iter().
C9_ZeroCapacityStaysEmpty ==
    capacity(q) = 0 =>
        /\ len(q) = 0
        /\ is_empty(q)
        /\ ret = None
        /\ iter(q) = Ok(<<>>)
        /\ asc_iter(q) = Ok(<<>>)

\* a push of a value other than the placeholder on a queue of capacity 0
C9_Witness ==
    /\ capacity(q) = 0
    /\ op = "push"
    /\ arg # Default
    /\ ret = None
    /\ len(q) = 0

\* C10: in every reachable state iter_mut() visits exactly the slots iter()
\* visits, in the same order, and none outside the live window.
C10_IterMutVisitsIterSlots ==
    /\ iter(q).panic = FALSE
    /\ iter_mut(q).panic = FALSE
    /\ iter_mut_slots(q) = iter_slots(q)

\* C11: in every reachable state asc_iter() and asc_iter_mut() yield exactly
\* the live elements, oldest first: the reverse of the reference bounded
\* queue, len() elements, also when the queue is only partially filled.
C11_AscIterYieldsLive ==
    /\ asc_iter(q) = Ok(Rev(ref))
    /\ asc_iter_mut(q) = Ok(Rev(ref))
    /\ Len(asc_iter(q).val) = len(q)

\* C12: a fresh queue of capacity C that received only pushes, n of them,
\* has len() = min(n, C), is full exactly when n >= C and is empty exactly
\* when len() = 0.
C12_LenAndFullAfterPushes ==
    /\ len(q) = Min(Len(hist), capacity(q))
    /\ is_full(q) <=> Len(hist) >= capacity(q)
    /\ is_empty(q) <=> len(q) = 0

\* more pushes than slots on a queue of at least two slots: full, not empty
C12_Witness ==
    /\ capacity(q) >= 2
    /\ Len(hist) > capacity(q)
    /\ is_full(q)
    /\ ~is_empty(q)
    /\ len(q) = capacity(q)

\* C13: under any interleaving of push, pop and clear, a push onto a full
\* queue of capacity >= 1 returns the oldest element of the reference
\* bounded queue and leaves len() = capacity; a push onto a queue that is
\* not full returns None and increases len() by exactly 1.
C13_PushEvictsOldest ==
    [][(op' = "push" /\ capacity(q) >= 1) =>
         IF is_full(q)
         THEN ret' = Some(ref[Len(ref)]) /\ len(q') = capacity(q)
         ELSE ret' = None /\ len(q') = len(q) + 1]_vars

\* a push that evicted, onto a queue of at least two slots, a value that is
\* neither the pushed one nor the one now second newest
C13_Witness ==
    /\ op = "push"
    /\ capacity(q) >= 2
    /\ is_full(q)
    /\ ret # None
    /\ ret # Some(arg)
    /\ ret # Some(ref[2])

\* C14: in every reachable state none of iter, iter_mut, asc_iter,
\* asc_iter_mut and == panics on a slice bound, and the slot push and pop
\* index is inside the array.
C14_NoOutOfRangeAccess ==
    /\ capacity(q) >= 1 => q.insertion_index < capacity(q)
    /\ ~iter_mut(q).panic
    /\ ~asc_iter(q).panic
    /\ ~asc_iter_mut(q).panic
    /\ ~iter_panics(q)
    /\ ~eq(q, q).panic

\* C15: in every reachable state of a queue of capacity C, 0 <= length <= C
\* and, when C >= 1, 0 <= insertion_index < C.
C15_LengthAndIndexInRange ==
    /\ 0 <= q.length
    /\ q.length <= capacity(q)
    /\ capacity(q) >= 1 =>
          (0 <= q.insertion_index /\ q.insertion_index < capacity(q))

\* a pop that wrapped the index back to the last slot of a queue that had
\* been full
C15_Witness ==
    /\ op = "pop"
    /\ capacity(q) >= 2
    /\ q.insertion_index = capacity(q) - 1
    /\ q.length = capacity(q) - 1

\* C16: whenever the queue is full, asc_iter() yields every live element
\* exactly once, oldest first, and its sequence is the reverse of iter()'s.
C16_AscIterWhenFull ==
    is_full(q) =>
        /\ asc_iter(q) = Ok(Rev(ref))
        /\ iter(q).panic = FALSE
        /\ asc_iter(q).val = Rev(iter(q).val)

\* a full queue of at least two slots whose index is past slot 0 and whose
\* oldest and newest elements differ
C16_Witness ==
    /\ capacity(q) >= 2
    /\ is_full(q)
    /\ q.insertion_index >= 1
    /\ ref[1] # ref[Len(ref)]
    /\ asc_iter(q) = Ok(Rev(ref))

C18_StorageSizeFixed ==
    [][Len(q'.data) = Len(q.data) /\ capacity(q') = capacity(q)]_vars

\* a pass of iter_mut() over a queue of at least two slots that holds
\* values other than the placeholder in all of them
C18_Witness ==
    /\ op = "iter_mut"
    /\ capacity(q) >= 2
    /\ is_full(q)
    /\ \A i \in 1..capacity(q) : q.data[i] # Default

\* the length slots behind insertion_index, newest first
LiveWindow(qq) ==
    [i \in 1..qq.length |->
        qq.data[((qq.insertion_index + capacity(qq) - i) % capacity(qq)) + 1]]

\* C20: in any reachable state of a queue of capacity >= 1, push(x)
\* followed at once by pop() returns x; when the queue was not full it
\* restores length, insertion_index and every live element, and when it
\* was full it leaves len() = capacity - 1 with the oldest element gone.
C20_PushPopRoundTrip ==
    capacity(q) >= 1 =>
        \A x \in Values :
            LET pushed == push(q, x).q
                popped == pop(pushed)
            IN /\ popped.ret = Some(x)
               /\ LiveWindow(q) = ref
               /\ IF ~is_full(q)
                  THEN /\ popped.q.length = q.length
                       /\ popped.q.insertion_index = q.insertion_index
                       /\ LiveWindow(popped.q) = ref
                  ELSE /\ len(popped.q) = capacity(q) - 1
                       /\ LiveWindow(popped.q) = SubSeq(ref, 1, capacity(q) - 1)

\* a queue that is not full and sits at its last slot after a wrap, so that
\* the push wraps the index forward and the pop wraps it back
C20_Witness ==
    /\ capacity(q) >= 2
    /\ ~is_full(q)
    /\ q.length >= 1
    /\ q.insertion_index = capacity(q) - 1
    /\ op = "pop"
    /\ pop(push(q, MaxVal).q).ret = Some(MaxVal)
    /\ pop(push(q, MaxVal).q).q.insertion_index = q.insertion_index

\* C19: for every ScopedAllocCounter, under any interleaving of alloc,
\* dealloc and reset() between its creation and its drop, the two
\* subtractions in drop do not underflow and give the bytes allocated and
\* deallocated during the scope.
C19_ScopedDeltasExact ==
    /\ scope # "panicked"
    /\ scope \in {"drop_allocated", "dropped"} =>
          delta_allocated = Exact(during_allocated)
    /\ scope = "dropped" =>
          delta_deallocated = Exact(during_deallocated)

====
